---- MODULE Spec2Model ----
(***************************************************************************)
(* Contract Extractor API (src/app.py): the response normalisation of      *)
(* POST /extract and POST /chat/{contract_id}, and the request handling of *)
(* the three endpoints over the upload folder and the model gateway.       *)
(*                                                                         *)
(* Texts are sequences of one-character strings.  Python values are        *)
(* records [t, s, n]: t is the Python type, s the characters of a str (or  *)
(* the source text of a float, dict or list value), n the number of an     *)
(* int or bool.  A Python dict is the sequence of its items in insertion   *)
(* order, each item a record [k, v].                                       *)
(***************************************************************************)
EXTENDS Integers, Sequences, FiniteSets, TLC

VARIABLES
    raw,        \* normaliser: the model's raw text (the value of `response`)
    npc,        \* normaliser: which of the two endpoints' parses have run
    ext_out,    \* normaliser: what extract_contract_details_with_model returns
    chat_out,   \* normaliser: what chat_with_contract returns
    disk,       \* UPLOAD_FOLDER: file name -> stored bytes
    req,        \* the requests: parameters, handler position, locals, response
    loop,       \* the request whose handler runs on the event loop (0: none)
    lastWrite,  \* history: file name -> the data of the latest write() to it
    hist        \* history: the file names of the batches answered so far

vars == <<raw, npc, ext_out, chat_out, disk, req, loop, lastWrite, hist>>

(***************************************************************************)
(* Bounds of the model.                                                    *)
(***************************************************************************)
MaxPairs == 2   \* members of a generated JSON object
MaxLines == 3   \* lines of a generated non-JSON text
MaxReqs  == 2   \* requests in one behaviour
MaxFiles == 2   \* files of one POST /extract

(***************************************************************************)
(* Characters and Python values.                                           *)
(***************************************************************************)
QUOTE == "\""
NL    == "\n"
Whitespace == {" ", NL}
Digits == {"0", "1", "2", "3", "4", "5", "6", "7", "8", "9"}

DigitValue(c) ==
    CASE c = "0" -> 0 [] c = "1" -> 1 [] c = "2" -> 2 [] c = "3" -> 3
      [] c = "4" -> 4 [] c = "5" -> 5 [] c = "6" -> 6 [] c = "7" -> 7
      [] c = "8" -> 8 [] c = "9" -> 9

PyNone       == [t |-> "none",  s |-> <<>>, n |-> 0]
PyStr(x)     == [t |-> "str",   s |-> x,    n |-> 0]
PyInt(k)     == [t |-> "int",   s |-> <<>>, n |-> k]
PyBool(b)    == [t |-> "bool",  s |-> <<>>, n |-> IF b THEN 1 ELSE 0]
PyFloat(lex) == [t |-> "float", s |-> lex,  n |-> 0]
PyDict(lex)  == [t |-> "dict",  s |-> lex,  n |-> 0]
PyList(lex)  == [t |-> "list",  s |-> lex,  n |-> 0]

\* isinstance(value, str)
IsStr(v) == v.t = "str"

\* d[k] = v on a dict: an existing key keeps its place, a new key is appended.
DictSet(d, k, v) ==
    IF \E i \in 1..Len(d) : d[i].k = k
    THEN [i \in 1..Len(d) |-> IF d[i].k = k THEN [k |-> k, v |-> v] ELSE d[i]]
    ELSE Append(d, [k |-> k, v |-> v])

DictKeys(d) == {d[i].k : i \in 1..Len(d)}
DictGet(d, k) == d[CHOOSE i \in 1..Len(d) : d[i].k = k].v

\* str.replace('"', '')
RECURSIVE RemoveQuotes(_)
RemoveQuotes(s) ==
    IF s = <<>> THEN <<>>
    ELSE IF Head(s) = QUOTE THEN RemoveQuotes(Tail(s))
    ELSE <<Head(s)>> \o RemoveQuotes(Tail(s))

\* str.strip()
RECURSIVE LStrip(_)
LStrip(s) ==
    IF s # <<>> /\ Head(s) \in Whitespace THEN LStrip(Tail(s)) ELSE s

RECURSIVE RStrip(_)
RStrip(s) ==
    IF s # <<>> /\ s[Len(s)] \in Whitespace
    THEN RStrip(SubSeq(s, 1, Len(s) - 1)) ELSE s

Strip(s) == RStrip(LStrip(s))

\* str.isdigit(): at least one character, all of them digits
IsDigit(s) == s # <<>> /\ \A i \in 1..Len(s) : s[i] \in Digits

\* int(s) of a string of digits
RECURSIVE IntOf(_)
IntOf(s) ==
    IF s = <<>> THEN 0
    ELSE 10 * IntOf(SubSeq(s, 1, Len(s) - 1)) + DigitValue(s[Len(s)])

\* ":" in line
HasColon(line) == \E i \in 1..Len(line) : line[i] = ":"

\* The split at the last colon instead: line.rsplit(":", 1).
FirstColonAsLast(line) == CHOOSE i \in 1..Len(line) :
    line[i] = ":" /\ \A j \in (i + 1)..Len(line) : line[j] # ":"

\* line.split(":", 1): the parts before and after the first colon
FirstColon(line) == CHOOSE i \in 1..Len(line) :
    line[i] = ":" /\ \A j \in 1..(i - 1) : line[j] # ":"
SplitKey(line)   == SubSeq(line, 1, FirstColon(line) - 1)
SplitValue(line) == SubSeq(line, FirstColon(line) + 1, Len(line))

\* str.splitlines(): the lines between line breaks; a final line break ends
\* the last line and starts no empty one.
RECURSIVE SplitLinesFrom(_, _, _)
SplitLinesFrom(s, i, cur) ==
    IF i > Len(s) THEN (IF cur = <<>> THEN <<>> ELSE <<cur>>)
    ELSE IF s[i] = NL THEN <<cur>> \o SplitLinesFrom(s, i + 1, <<>>)
    ELSE SplitLinesFrom(s, i + 1, Append(cur, s[i]))

SplitLines(s) == SplitLinesFrom(s, 1, <<>>)

(***************************************************************************)
(* json.loads: a recursive-descent parse of objects, arrays, strings       *)
(* without escapes, numbers without exponent, null, true and false.  A     *)
(* result is [ok, v, d, nxt]: v the value, d the items when v is a dict,   *)
(* nxt the position after it.                                              *)
(***************************************************************************)
ParseFail == [ok |-> FALSE, v |-> PyNone, d |-> <<>>, nxt |-> 0]
Parsed(v, d, nxt) == [ok |-> TRUE, v |-> v, d |-> d, nxt |-> nxt]

RECURSIVE SkipWs(_, _)
SkipWs(s, i) ==
    IF i <= Len(s) /\ s[i] \in Whitespace THEN SkipWs(s, i + 1) ELSE i

At(s, i, c) == i <= Len(s) /\ s[i] = c

Matches(s, i, word) ==
    /\ i + Len(word) - 1 <= Len(s)
    /\ SubSeq(s, i, i + Len(word) - 1) = word

RECURSIVE DigitsEnd(_, _)
DigitsEnd(s, i) ==
    IF i <= Len(s) /\ s[i] \in Digits THEN DigitsEnd(s, i + 1) ELSE i

\* A string: the characters up to the next quote; a raw line break or a
\* backslash inside it is rejected.
ParseString(s, i) ==
    IF ~At(s, i, QUOTE) \/ ~(\E j \in (i + 1)..Len(s) : s[j] = QUOTE)
    THEN ParseFail
    ELSE LET j == CHOOSE j \in (i + 1)..Len(s) :
                      s[j] = QUOTE /\ \A m \in (i + 1)..(j - 1) : s[m] # QUOTE
             body == SubSeq(s, i + 1, j - 1)
         IN  IF \E m \in 1..Len(body) : body[m] \in {NL, "\\"}
             THEN ParseFail
             ELSE Parsed(PyStr(body), <<>>, j + 1)

\* A number: -? (0 | [1-9][0-9]*) (. [0-9]+)?
ParseNumber(s, i) ==
    LET a == IF At(s, i, "-") THEN i + 1 ELSE i
        b == DigitsEnd(s, a)
        intOk == b > a /\ (s[a] = "0" => b = a + 1)
        c == IF At(s, b, ".") THEN DigitsEnd(s, b + 1) ELSE b
        fracOk == At(s, b, ".") => c > b + 1
        magnitude == IntOf(SubSeq(s, a, b - 1))
    IN  IF ~intOk \/ ~fracOk THEN ParseFail
        ELSE IF c > b THEN Parsed(PyFloat(SubSeq(s, i, c - 1)), <<>>, c)
        ELSE Parsed(PyInt(IF a > i THEN 0 - magnitude ELSE magnitude), <<>>, c)

RECURSIVE ParseValue(_, _), ParseMembers(_, _, _), ParseElements(_, _)

ParseObject(s, i) ==
    LET j == SkipWs(s, i + 1)
    IN  IF At(s, j, "}") THEN Parsed(PyDict(SubSeq(s, i, j)), <<>>, j + 1)
        ELSE LET r == ParseMembers(s, j, <<>>)
             IN  IF r.ok THEN Parsed(PyDict(SubSeq(s, i, r.nxt - 1)), r.d, r.nxt)
                 ELSE ParseFail

ParseArray(s, i) ==
    LET j == SkipWs(s, i + 1)
    IN  IF At(s, j, "]") THEN Parsed(PyList(SubSeq(s, i, j)), <<>>, j + 1)
        ELSE LET r == ParseElements(s, j)
             IN  IF r.ok THEN Parsed(PyList(SubSeq(s, i, r.nxt - 1)), <<>>, r.nxt)
                 ELSE ParseFail

ParseValue(s, i) ==
    IF i > Len(s) THEN ParseFail
    ELSE IF s[i] = "{" THEN ParseObject(s, i)
    ELSE IF s[i] = "[" THEN ParseArray(s, i)
    ELSE IF s[i] = QUOTE THEN ParseString(s, i)
    ELSE IF s[i] \in Digits \cup {"-"} THEN ParseNumber(s, i)
    ELSE IF Matches(s, i, <<"n", "u", "l", "l">>) THEN Parsed(PyNone, <<>>, i + 4)
    ELSE IF Matches(s, i, <<"t", "r", "u", "e">>)
         THEN Parsed(PyBool(TRUE), <<>>, i + 4)
    ELSE IF Matches(s, i, <<"f", "a", "l", "s", "e">>)
         THEN Parsed(PyBool(FALSE), <<>>, i + 5)
    ELSE ParseFail

\* The members of an object from position i on, after the items d.
ParseMembers(s, i, d) ==
    LET key == ParseString(s, i)
        c   == SkipWs(s, key.nxt)
        val == ParseValue(s, SkipWs(s, c + 1))
        e   == SkipWs(s, val.nxt)
        d2  == DictSet(d, key.v.s, val.v)
    IN  IF ~key.ok \/ ~At(s, c, ":") \/ ~val.ok THEN ParseFail
        ELSE IF At(s, e, "}") THEN Parsed(PyNone, d2, e + 1)
        ELSE IF At(s, e, ",") THEN ParseMembers(s, SkipWs(s, e + 1), d2)
        ELSE ParseFail

\* The elements of an array from position i on.
ParseElements(s, i) ==
    LET val == ParseValue(s, i)
        e   == SkipWs(s, val.nxt)
    IN  IF ~val.ok THEN ParseFail
        ELSE IF At(s, e, "]") THEN Parsed(PyNone, <<>>, e + 1)
        ELSE IF At(s, e, ",") THEN ParseElements(s, SkipWs(s, e + 1))
        ELSE ParseFail

\* json.loads(text): ok is FALSE where it raises json.JSONDecodeError.
JsonLoads(s) ==
    LET r == ParseValue(s, SkipWs(s, 1))
    IN  IF r.ok /\ SkipWs(s, r.nxt) = Len(s) + 1 THEN r ELSE ParseFail

(***************************************************************************)
(* The response handling of extract_contract_details_with_model.           *)
(***************************************************************************)
ErrKey  == <<"e", "r", "r", "o", "r">>
ErrText == <<"A", "n", " ", "e", "r", "r", "o", "r">>

\* {"error": f"An error occurred: {str(e)}"}
ErrorPayload == <<[k |-> ErrKey, v |-> PyStr(ErrText)]>>

\* Lines 92-97: the fallback of /extract over the lines of the response.
RECURSIVE ExtractLines(_, _)
ExtractLines(lines, d) ==
    IF lines = <<>> THEN d
    ELSE LET line == Head(lines)
         IN  ExtractLines(Tail(lines),
                 IF HasColon(line)
                 THEN DictSet(d, Strip(SplitKey(line)), PyStr(Strip(SplitValue(line))))
                 ELSE d)

RECURSIVE RemoveQuotesFrom(_, _)
RemoveQuotesFrom(items, new) ==
    IF items = <<>> THEN new
    ELSE LET key   == Head(items).k
             value == Head(items).v
         IN  RemoveQuotesFrom(Tail(items),
                 DictSet(new, RemoveQuotes(key),
                         IF IsStr(value) THEN PyStr(RemoveQuotes(value.s)) ELSE value))

remove_extra_quotes(contract_details) == RemoveQuotesFrom(contract_details, <<>>)

\* Lines 87-102, the response in hand: a JSON value that is no dict has no
\* .items(), and the AttributeError is caught at line 103.
ExtractDetails(response) ==
    LET j == JsonLoads(response)
    IN  IF j.ok
        THEN IF j.v.t = "dict" THEN remove_extra_quotes(j.d) ELSE ErrorPayload
        ELSE remove_extra_quotes(ExtractLines(SplitLines(response), <<>>))

(***************************************************************************)
(* The response handling of chat_with_contract.  A body is                 *)
(* [shape, results, files]: {"results": [...]}, {"error": ...} or          *)
(* {"files": [...]}.                                                       *)
(***************************************************************************)
ResultsBody(results) == [shape |-> "results", results |-> results, files |-> {}]
ErrorBody            == [shape |-> "error",   results |-> <<>>,    files |-> {}]
FilesBody(files)     == [shape |-> "files",   results |-> <<>>,    files |-> files]
NoBody               == [shape |-> "none",    results |-> <<>>,    files |-> {}]

Result(file_name, contract_details) ==
    [file_name |-> file_name, contract_details |-> contract_details]

\* Lines 253-259: value == "null", value.isdigit(), or the value as it is.
\* Only called on str values.
ChatCoerce(value) ==
    IF value = <<"n", "u", "l", "l">> THEN PyNone
    ELSE IF IsDigit(value) THEN PyInt(IntOf(value))
    ELSE PyStr(value)

RECURSIVE ChatItems(_, _)
ChatItems(items, d) ==
    IF items = <<>> THEN d
    ELSE ChatItems(Tail(items),
                   DictSet(d, Head(items).k, ChatCoerce(Head(items).v.s)))

\* Lines 263-273: the fallback of /chat over the lines of the response.
RECURSIVE ChatLines(_, _)
ChatLines(lines, d) ==
    IF lines = <<>> THEN d
    ELSE LET line == Head(lines)
         IN  ChatLines(Tail(lines),
                 IF HasColon(line)
                 THEN DictSet(d, Strip(SplitKey(line)), ChatCoerce(Strip(SplitValue(line))))
                 ELSE d)

\* Lines 241-284, the response in hand.  A JSON value that is no dict has no
\* .items(), and a value that is no str has no .isdigit() (PyNone, a number, a
\* bool, a dict and a list are all unequal to "null"): the AttributeError is
\* caught at line 283.
ChatDetails(contract_id, response) ==
    LET j == JsonLoads(response)
    IN  IF j.ok
        THEN IF j.v.t # "dict" \/ \E i \in 1..Len(j.d) : ~IsStr(j.d[i].v)
             THEN ErrorBody
             ELSE ResultsBody(<<Result(contract_id, ChatItems(j.d, <<>>))>>)
        ELSE ResultsBody(<<Result(contract_id,
                                  ChatLines(SplitLines(response), <<>>))>>)

(***************************************************************************)
(* The texts the normaliser is run on: JSON objects of up to MaxPairs      *)
(* members, texts of up to MaxLines lines, and some further texts.         *)
(***************************************************************************)
RECURSIVE Join(_, _)
Join(parts, sep) ==
    IF parts = <<>> THEN <<>>
    ELSE IF Len(parts) = 1 THEN parts[1]
    ELSE parts[1] \o sep \o Join(Tail(parts), sep)

SeqsUpTo(S, n) == UNION {[1..m -> S] : m \in 0..n}

JsonKeys == {<<"a">>, <<"b">>}
JsonValueTexts ==
    { <<QUOTE, "0", "0", "7", QUOTE>>,
      <<QUOTE, "n", "u", "l", "l", QUOTE>>,
      <<QUOTE, "1", "2", ".", "5", QUOTE>>,
      <<QUOTE, "x", QUOTE>>,
      <<"5">>,
      <<"n", "u", "l", "l">>,
      <<"{", "}">> }

Member(k, v) == <<QUOTE>> \o k \o <<QUOTE, ":", " ">> \o v

JsonTexts ==
    { <<"{">> \o Join([i \in 1..Len(ms) |-> Member(ms[i][1], ms[i][2])], <<",", " ">>)
              \o <<"}">> :
      ms \in SeqsUpTo(JsonKeys \X JsonValueTexts, MaxPairs) }

LineSet ==
    { <<"a", ":", " ", "x">>,
      <<"a", ":", " ", "0", "0", "7">>,
      <<"b", ":", " ", "n", "u", "l", "l">>,
      <<"b", ":", "1", "2", ".", "5">>,
      <<" ", QUOTE, "a", QUOTE, " ", ":", " ", QUOTE, "x", QUOTE, ",">>,
      <<QUOTE, "b", QUOTE, ":", "7">>,
      <<"a", ":", "1", ":", "2">>,
      <<"n", "o">>,
      <<"{">> }

LineTexts == { Join(ls, <<NL>>) : ls \in SeqsUpTo(LineSet, MaxLines) \ {<<>>} }

ExtraTexts ==
    { <<>>,
      <<"[", "1", "]">>,
      <<"5">>,
      <<QUOTE, "x", QUOTE>>,
      <<"t", "r", "u", "e">>,
      <<"{", NL, QUOTE, "a", QUOTE, ":", " ", "t", "r", "u", "e", NL, "}", NL>>,
      <<"{", QUOTE, "a", QUOTE, ":", QUOTE, "7", QUOTE, ",", "}">>,
      <<"{", QUOTE, "a", QUOTE, ":", "0", "7", "}">>,
      <<"a", ":", "x", NL>> }

NormInputs == JsonTexts \cup LineTexts \cup ExtraTexts

NoDetails == <<>>

(***************************************************************************)
(* The upload folder and the text extractors.  A stored file is            *)
(* [exists, bytes]; its bytes are a sequence of chunks, each one page of a *)
(* PDF or one paragraph of a DOCX: "T" carries text, "I" (an image-only    *)
(* page, an empty paragraph) carries none.                                 *)
(***************************************************************************)
PDF  == <<".", "p", "d", "f">>
DOCX == <<".", "d", "o", "c", "x">>

FileNames ==
    { <<"a">> \o PDF, <<"b">> \o DOCX, <<"c", ".", "t", "x", "t">> }
Datas == { <<"T", "T">>, <<"I">> }

\* str.endswith(suffix)
EndsWith(name, suffix) ==
    /\ Len(name) >= Len(suffix)
    /\ SubSeq(name, Len(name) - Len(suffix) + 1, Len(name)) = suffix

ChunkText(c) == IF c = "T" THEN <<"t">> ELSE <<>>

\* Lines 42-46: the page texts, one after the other.
RECURSIVE extract_text_from_pdf(_)
extract_text_from_pdf(bytes) ==
    IF bytes = <<>> THEN <<>>
    ELSE ChunkText(Head(bytes)) \o extract_text_from_pdf(Tail(bytes))

\* Lines 58-60: the paragraph texts joined by line breaks.
extract_text_from_docx(bytes) ==
    Join([i \in 1..Len(bytes) |-> ChunkText(bytes[i])], <<NL>>)

NoFile == [exists |-> FALSE, bytes |-> <<>>]
EmptyFolder == [n \in FileNames |-> NoFile]

\* Line 131, open(file_path, "wb"): the file is created or truncated.
OpenForWrite(folder, name) ==
    [folder EXCEPT ![name] = [exists |-> TRUE, bytes |-> <<>>]]

\* Line 132, write() through a handle at position 0: the data replaces the
\* bytes from the start of the file on, and what lies behind it stays.
WriteAtStart(folder, name, data) ==
    [folder EXCEPT ![name] =
        [exists |-> TRUE,
         bytes  |-> data \o SubSeq(folder[name].bytes, Len(data) + 1,
                                   Len(folder[name].bytes))]]

\* The listing without its filter: os.listdir(UPLOAD_FOLDER).
get_uploaded_files_unfiltered(folder) == {f \in FileNames : folder[f].exists}

\* Line 165: the entries of the folder that end in .pdf or .docx.
get_uploaded_files(folder) ==
    {f \in FileNames : folder[f].exists /\ (EndsWith(f, PDF) \/ EndsWith(f, DOCX))}

\* Lines 188-194; "unsupported" where the ValueError is raised.
get_file_text(folder, file_name) ==
    IF EndsWith(file_name, PDF)
    THEN [raised |-> FALSE, text |-> extract_text_from_pdf(folder[file_name].bytes)]
    ELSE IF EndsWith(file_name, DOCX)
    THEN [raised |-> FALSE, text |-> extract_text_from_docx(folder[file_name].bytes)]
    ELSE [raised |-> TRUE, text |-> <<>>]

(***************************************************************************)
(* The model gateway: client.predict returns some text or raises.          *)
(***************************************************************************)
GatewayTexts ==
    { <<"{", QUOTE, "a", QUOTE, ":", " ", QUOTE, "7", QUOTE, "}">> }

GatewayOutcomes ==
    {[raised |-> TRUE, text |-> <<>>]}
        \cup {[raised |-> FALSE, text |-> t] : t \in GatewayTexts}

\* The function without its try/except: an exception of client.predict
\* leaves it.
extract_contract_details_uncaught(outcome) ==
    [raised  |-> outcome.raised,
     details |-> IF outcome.raised THEN <<>> ELSE ExtractDetails(outcome.text)]

\* Lines 76-104, the outcome of client.predict in hand: what the function
\* returns, or that it raises.
extract_contract_details_with_model(outcome) ==
    [raised  |-> FALSE,
     details |-> IF outcome.raised THEN ErrorPayload
                 ELSE ExtractDetails(outcome.text)]

\* Lines 230-284, the outcome of client.predict in hand.
chat_response(contract_id, outcome) ==
    [raised |-> FALSE,
     body   |-> IF outcome.raised THEN ErrorBody
                ELSE ChatDetails(contract_id, outcome.text)]

\* The append left out for a file whose model call failed.
append_result_unless_error(results, file_name, extracted_details) ==
    IF extracted_details = ErrorPayload THEN results
    ELSE Append(results, Result(file_name, extracted_details))

\* Lines 150-153
append_result(results, file_name, extracted_details) ==
    Append(results, Result(file_name, extracted_details))

(***************************************************************************)
(* The requests.  The handlers are coroutines (async def) that never       *)
(* await: from its first line to its response, a handler holds the one     *)
(* event loop of the process uvicorn.run starts, and a request that has    *)
(* arrived meanwhile is read and routed only when the loop is free.        *)
(*                                                                         *)
(* calls and failed are history fields of a request: the calls of          *)
(* client.predict it made, and the files for which that call raised.       *)
(* lastWrite and hist are history variables: per file name the data of the *)
(* latest write() call, and the file names of the batches answered so far, *)
(* all of them (sent) and those the loop over the files got to (reached),  *)
(* with the names that were written again with other data (overwritten).   *)
(***************************************************************************)
Reqs == 1..MaxReqs

UploadFiles == [filename : FileNames, data : Datas]
Batches == SeqsUpTo(UploadFiles, MaxFiles) \ {<<>>}

NoRequest ==
    [kind |-> "none", files |-> <<>>, contract_id |-> <<>>, pc |-> "none",
     i |-> 0, text |-> <<>>, results |-> <<>>, uploaded_files |-> {},
     status |-> 0, detail |-> "", body |-> NoBody, calls |-> 0, failed |-> {}]

IdleNormaliser ==
    /\ raw = <<>>
    /\ npc = "idle"
    /\ ext_out = NoDetails
    /\ chat_out = NoBody

Init ==
    /\ IdleNormaliser
    /\ disk = EmptyFolder
    /\ req = [r \in Reqs |-> NoRequest]
    /\ loop = 0
    /\ lastWrite = [n \in FileNames |-> <<>>]
    /\ hist = [sent |-> {}, reached |-> {}, overwritten |-> {}]

\* Handlers that run beside each other (def handlers in the thread pool).
LoopFreeAlways == TRUE

\* Lines 116-117, 196-197, 288: a handler starts when the event loop is free.
LoopFree == loop = 0

\* The handler returns, or raises an HTTPException.
Respond(r, status, detail, body) ==
    req' = [req EXCEPT ![r].pc = "done", ![r].status = status,
                       ![r].detail = detail, ![r].body = body]

\* A client sends a request (on the lowest free connection).
Arrive(r) ==
    /\ req[r].pc = "none"
    /\ \A q \in 1..(r - 1) : req[q].pc # "none"
    /\ req' = [req EXCEPT ![r].pc = "pending"]
    /\ UNCHANGED <<raw, npc, ext_out, chat_out, disk, loop, lastWrite, hist>>

\* Lines 116-128: POST /extract with its files enters the loop over them.
StartExtract(r) ==
    /\ req[r].pc = "pending"
    /\ LoopFree
    /\ \E files \in Batches :
          req' = [req EXCEPT ![r].kind = "extract", ![r].files = files,
                             ![r].pc = "open", ![r].i = 1]
    /\ loop' = r
    /\ UNCHANGED <<raw, npc, ext_out, chat_out, disk, lastWrite, hist>>

\* Lines 130-131
OpenFile(r) ==
    /\ req[r].pc = "open"
    /\ disk' = OpenForWrite(disk, req[r].files[req[r].i].filename)
    /\ req' = [req EXCEPT ![r].pc = "write"]
    /\ UNCHANGED <<raw, npc, ext_out, chat_out, loop, lastWrite, hist>>

\* Line 132
WriteFile(r) ==
    /\ req[r].pc = "write"
    /\ \E file \in {req[r].files[req[r].i]} :
          /\ disk' = WriteAtStart(disk, file.filename, file.data)
          /\ lastWrite' = [lastWrite EXCEPT ![file.filename] = file.data]
          /\ hist' = [hist EXCEPT !.overwritten =
                          IF lastWrite[file.filename] \notin {<<>>, file.data}
                          THEN @ \cup {file.filename} ELSE @]
    /\ req' = [req EXCEPT ![r].pc = "extract"]
    /\ UNCHANGED <<raw, npc, ext_out, chat_out, loop>>

\* Lines 135-148 and 78: HTTP 400, or the text of the stored file, with which
\* client.predict is called; the handler waits in that call.
ExtractText(r) ==
    /\ req[r].pc = "extract"
    /\ \E name \in {req[r].files[req[r].i].filename} :
       \E pdf_text \in {extract_text_from_pdf(disk[name].bytes)} :
       \E docx_text \in {extract_text_from_docx(disk[name].bytes)} :
          IF EndsWith(name, PDF)
          THEN IF pdf_text = <<>>
               THEN Respond(r, 400, "Failed to extract text from the PDF", NoBody)
               ELSE req' = [req EXCEPT ![r].pc = "waiting", ![r].text = pdf_text,
                                       ![r].calls = @ + 1]
          ELSE IF EndsWith(name, DOCX)
          THEN IF docx_text = <<>>
               THEN Respond(r, 400, "Failed to extract text from the DOCX file", NoBody)
               ELSE req' = [req EXCEPT ![r].pc = "waiting", ![r].text = docx_text,
                                       ![r].calls = @ + 1]
          ELSE Respond(r, 400, "Only PDF and DOCX files are allowed", NoBody)
    /\ UNCHANGED <<raw, npc, ext_out, chat_out, disk, loop, lastWrite, hist>>

\* Lines 78-104 and 139-156: client.predict returns or raises in /extract;
\* the result is appended, and the loop goes on or the response is returned.
\* An exception that leaves the handler becomes HTTP 500.
ExtractReturn(r) ==
    /\ req[r].pc = "waiting"
    /\ req[r].kind = "extract"
    /\ \E outcome \in GatewayOutcomes :
       \E res \in {extract_contract_details_with_model(outcome)} :
       \E fail \in {IF outcome.raised THEN req[r].failed \cup {req[r].i}
                    ELSE req[r].failed} :
       \E results \in {append_result(req[r].results,
                                     req[r].files[req[r].i].filename, res.details)} :
          IF res.raised
          THEN req' = [req EXCEPT ![r].pc = "done", ![r].status = 500,
                                  ![r].detail = "Internal Server Error",
                                  ![r].failed = fail]
          ELSE IF req[r].i < Len(req[r].files)
          THEN req' = [req EXCEPT ![r].pc = "open", ![r].i = @ + 1,
                                  ![r].text = <<>>, ![r].failed = fail,
                                  ![r].results = results]
          ELSE req' = [req EXCEPT ![r].pc = "done", ![r].status = 200,
                                  ![r].body = ResultsBody(results),
                                  ![r].results = results, ![r].failed = fail]
    /\ UNCHANGED <<raw, npc, ext_out, chat_out, disk, loop, lastWrite, hist>>

\* Lines 196-210: POST /chat/{contract_id} looks the id up in the listing.
StartChat(r) ==
    /\ req[r].pc = "pending"
    /\ LoopFree
    /\ \E contract_id \in FileNames :
       \E uploaded_files \in {get_uploaded_files(disk)} :
          IF contract_id \notin uploaded_files
          THEN req' = [req EXCEPT ![r].kind = "chat", ![r].contract_id = contract_id,
                                  ![r].uploaded_files = uploaded_files,
                                  ![r].pc = "done", ![r].status = 404,
                                  ![r].detail = "Contract not found"]
          ELSE req' = [req EXCEPT ![r].kind = "chat", ![r].contract_id = contract_id,
                                  ![r].uploaded_files = uploaded_files,
                                  ![r].pc = "load"]
    /\ loop' = r
    /\ UNCHANGED <<raw, npc, ext_out, chat_out, disk, lastWrite, hist>>

\* Lines 212-232: the text of the stored file, with which client.predict is
\* called; the handler waits in that call.
LoadText(r) ==
    /\ req[r].pc = "load"
    /\ \E got \in {get_file_text(disk, req[r].contract_id)} :
          IF got.raised
          THEN Respond(r, 500, "Internal Server Error", NoBody)
          ELSE req' = [req EXCEPT ![r].pc = "waiting", ![r].text = got.text,
                                  ![r].calls = @ + 1]
    /\ UNCHANGED <<raw, npc, ext_out, chat_out, disk, loop, lastWrite, hist>>

\* Lines 232-284: client.predict returns or raises in /chat.
ChatReturn(r) ==
    /\ req[r].pc = "waiting"
    /\ req[r].kind = "chat"
    /\ \E outcome \in GatewayOutcomes :
       \E res \in {chat_response(req[r].contract_id, outcome)} :
          req' = [req EXCEPT ![r].pc = "done",
                             ![r].status = IF res.raised THEN 500 ELSE 200,
                             ![r].body = IF res.raised THEN NoBody ELSE res.body,
                             ![r].failed = IF outcome.raised THEN {1} ELSE {}]
    /\ UNCHANGED <<raw, npc, ext_out, chat_out, disk, loop, lastWrite, hist>>

\* Lines 167-176: GET /files
get_files(r) ==
    /\ req[r].pc = "pending"
    /\ LoopFree
    /\ req' = [req EXCEPT ![r].kind = "files", ![r].pc = "done", ![r].status = 200,
                          ![r].body = FilesBody(get_uploaded_files(disk))]
    /\ loop' = r
    /\ UNCHANGED <<raw, npc, ext_out, chat_out, disk, lastWrite, hist>>

\* The response is sent, and the event loop is free for the next request.
Deliver(r) ==
    /\ req[r].pc = "done"
    /\ req' = [req EXCEPT ![r] = NoRequest]
    /\ loop' = 0
    /\ hist' = IF req[r].kind = "extract"
               THEN [hist EXCEPT
                        !.sent = @ \cup {req[r].files[j].filename :
                                             j \in 1..Len(req[r].files)},
                        !.reached = @ \cup {req[r].files[j].filename :
                                                j \in 1..req[r].i}]
               ELSE hist
    /\ UNCHANGED <<raw, npc, ext_out, chat_out, disk, lastWrite>>

Start(r) == StartExtract(r) \/ StartChat(r) \/ get_files(r)

Next ==
    \E r \in Reqs :
        \/ Arrive(r)
        \/ Start(r)
        \/ OpenFile(r)
        \/ WriteFile(r)
        \/ ExtractText(r)
        \/ ExtractReturn(r)
        \/ LoadText(r)
        \/ ChatReturn(r)
        \/ Deliver(r)

Spec == Init /\ [][Next]_vars

(***************************************************************************)
(* The normaliser on its own: a text is drawn, then each endpoint's        *)
(* response handling is applied to it.                                     *)
(***************************************************************************)
NormInit ==
    /\ raw \in NormInputs
    /\ npc = "input"
    /\ ext_out = NoDetails
    /\ chat_out = NoBody
    /\ disk = EmptyFolder
    /\ req = [r \in Reqs |-> NoRequest]
    /\ loop = 0
    /\ lastWrite = [n \in FileNames |-> <<>>]
    /\ hist = [sent |-> {}, reached |-> {}, overwritten |-> {}]

NormExtract ==
    /\ npc = "input"
    /\ ext_out' = ExtractDetails(raw)
    /\ npc' = "extracted"
    /\ UNCHANGED <<raw, chat_out, disk, req, loop, lastWrite, hist>>

NormChat ==
    /\ npc = "extracted"
    /\ chat_out' = ChatDetails(<<"a", ".", "p", "d", "f">>, raw)
    /\ npc' = "done"
    /\ UNCHANGED <<raw, ext_out, disk, req, loop, lastWrite, hist>>

NormNext == NormExtract \/ NormChat

NormSpec == NormInit /\ [][NormNext]_vars

(***************************************************************************)
(* The normaliser's claims, stated without the operators of the model      *)
(* above where the claim is about what they compute.                       *)
(***************************************************************************)
NULL == <<"n", "u", "l", "l">>

AsMap(d) == [k \in DictKeys(d) |-> DictGet(d, k)]

SpecNoQuotes(s) == SelectSeq(s, LAMBDA c : c # QUOTE)

\* s without its leading and trailing whitespace
SpecTrim(s) ==
    CHOOSE t \in {SubSeq(s, a, b) : a \in 1..(Len(s) + 1), b \in 0..Len(s)} :
        \E a \in 1..(Len(s) + 1), b \in 0..Len(s) :
            /\ a <= b + 1
            /\ t = SubSeq(s, a, b)
            /\ \A i \in 1..(a - 1) : s[i] \in Whitespace
            /\ \A i \in (b + 1)..Len(s) : s[i] \in Whitespace
            /\ a <= b => s[a] \notin Whitespace /\ s[b] \notin Whitespace

\* The lines of a text: the stretches between line breaks.
SpecBreaks(s) == {i \in 1..Len(s) : s[i] = NL}
SpecLineCount(s) ==
    Cardinality(SpecBreaks(s)) + (IF s # <<>> /\ s[Len(s)] # NL THEN 1 ELSE 0)
SpecBreak(s, n) ==
    IF n = 0 THEN 0
    ELSE IF n > Cardinality(SpecBreaks(s)) THEN Len(s) + 1
    ELSE CHOOSE i \in SpecBreaks(s) :
             Cardinality({j \in SpecBreaks(s) : j <= i}) = n
SpecLine(s, n) == SubSeq(s, SpecBreak(s, n - 1) + 1, SpecBreak(s, n) - 1)

\* The colon-containing lines of a text, by number, and their two parts at
\* the first colon.
SpecColonLines(s) ==
    {n \in 1..SpecLineCount(s) : \E i \in 1..Len(SpecLine(s, n)) : SpecLine(s, n)[i] = ":"}
SpecColon(line) ==
    CHOOSE i \in 1..Len(line) : line[i] = ":" /\ \A j \in 1..(i - 1) : line[j] # ":"
SpecKey(s, n) ==
    SpecTrim(SubSeq(SpecLine(s, n), 1, SpecColon(SpecLine(s, n)) - 1))
SpecValue(s, n) ==
    SpecTrim(SubSeq(SpecLine(s, n), SpecColon(SpecLine(s, n)) + 1, Len(SpecLine(s, n))))

\* null/integer coercion of a string: "null" is None, digits are an int.
SpecCoerce(x) ==
    IF x = NULL THEN PyNone
    ELSE IF x # <<>> /\ \A i \in 1..Len(x) : x[i] \in Digits THEN PyInt(IntOf(x))
    ELSE PyStr(x)

ExtractRan == npc \in {"extracted", "done"}
ChatRan    == npc = "done"
ChatOut    == chat_out.results[1].contract_details

IsValidJson(text)  == JsonLoads(text).ok
IsJsonObject(text) == JsonLoads(text).ok /\ JsonLoads(text).v.t = "dict"

\* The three coercions hold of a mapping.
Coerced(d) ==
    \A i \in 1..Len(d) :
        /\ \A m \in 1..Len(d[i].k) : d[i].k[m] # QUOTE
        /\ IsStr(d[i].v) =>
              /\ \A m \in 1..Len(d[i].v.s) : d[i].v.s[m] # QUOTE
              /\ d[i].v.s # NULL
              /\ ~IsDigit(d[i].v.s)

\* C1: in every contract_details mapping returned by /extract or /chat, by
\* either parse path, no key or string value contains a double quote, no
\* value is the string "null", and no value is a string of decimal digits.
C1_CoercionInvariant ==
    /\ ExtractRan => Coerced(ext_out)
    /\ ChatRan /\ chat_out.shape = "results" => Coerced(ChatOut)

\* The object of a JSON text after quote-stripping and null/integer coercion.
SpecNormalized(text) ==
    LET obj == JsonLoads(text).d
    IN  [k \in {SpecNoQuotes(key) : key \in DictKeys(obj)} |->
            LET key == CHOOSE key \in DictKeys(obj) : SpecNoQuotes(key) = k
                v   == DictGet(obj, key)
            IN  IF IsStr(v) THEN SpecCoerce(SpecTrim(SpecNoQuotes(v.s))) ELSE v]

\* C2: for every raw text that is a valid JSON object, whatever the types of
\* its values, /extract and /chat both return the object's keys with its
\* values after quote-stripping and null/integer coercion, never an error
\* payload.
C2_JsonObjectNormalized ==
    IsJsonObject(raw) =>
        /\ ExtractRan => AsMap(ext_out) = SpecNormalized(raw)
        /\ ChatRan => /\ chat_out.shape = "results"
                      /\ AsMap(ChatOut) = SpecNormalized(raw)

\* C3 as stated: for every raw text that is not valid JSON, both endpoints
\* return one field per distinct trimmed left part of the colon-containing
\* lines (none when no line has a colon), and no error.
C3_FieldsPerTrimmedKey ==
    ~IsValidJson(raw) =>
        LET keys == {SpecKey(raw, n) : n \in SpecColonLines(raw)}
        IN  /\ ExtractRan => DictKeys(ext_out) = keys
            /\ ChatRan => /\ chat_out.shape = "results"
                          /\ DictKeys(ChatOut) = keys

\* The last colon-containing line of the text whose key is k.
SpecLastLine(text, k) ==
    CHOOSE n \in SpecColonLines(text) :
        /\ SpecKey(text, n) = k
        /\ \A m \in SpecColonLines(text) : SpecKey(text, m) = k => m <= n

\* C3 as amended: for every raw text that is not valid JSON, /chat returns one
\* field per distinct trimmed left part, its value the null/integer coercion
\* of the trimmed right part of the last line with that key; /extract returns
\* one field per distinct trimmed left part with its double quotes removed,
\* its value the trimmed right part, double quotes removed, of a line with
\* such a key (of the last one when all of them have the same left part);
\* lines without a colon add nothing, and a text without any colon gives the
\* empty mapping, not an error.
C3_FieldsPerKeyAmended ==
    ~IsValidJson(raw) =>
        LET ns == SpecColonLines(raw)
        IN  /\ ExtractRan =>
                /\ DictKeys(ext_out) = {SpecNoQuotes(SpecKey(raw, n)) : n \in ns}
                /\ \A k \in DictKeys(ext_out) :
                      LET from == {n \in ns : SpecNoQuotes(SpecKey(raw, n)) = k}
                          same == \A n, m \in from : SpecKey(raw, n) = SpecKey(raw, m)
                          n0   == CHOOSE n \in from : TRUE
                      IN  /\ \E n \in from :
                                DictGet(ext_out, k) = PyStr(SpecNoQuotes(SpecValue(raw, n)))
                          /\ same => DictGet(ext_out, k) =
                                PyStr(SpecNoQuotes(SpecValue(raw,
                                          SpecLastLine(raw, SpecKey(raw, n0)))))
            /\ ChatRan =>
                /\ chat_out.shape = "results"
                /\ Len(chat_out.results) = 1
                /\ DictKeys(ChatOut) = {SpecKey(raw, n) : n \in ns}
                /\ \A k \in DictKeys(ChatOut) :
                      DictGet(ChatOut, k) = SpecCoerce(SpecValue(raw, SpecLastLine(raw, k)))

\* C3's case: a text that is not JSON, with a line without a colon and two
\* lines whose keys differ only in their double quotes, parsed by both.
C3_Witness ==
    /\ ChatRan
    /\ ~IsValidJson(raw)
    /\ SpecLineCount(raw) > Cardinality(SpecColonLines(raw))
    /\ Len(ext_out) < Len(ChatOut)

(***************************************************************************)
(* The claims about the requests.                                          *)
(***************************************************************************)
\* A file name with the extension of a PDF or DOCX document.
SpecIsDoc(name) ==
    \E k \in 0..Len(name) : SubSeq(name, k + 1, Len(name)) \in {PDF, DOCX}

\* The text the extractor gives for an uploaded document.
SpecTextOf(file) ==
    IF EndsWith(file.filename, PDF) THEN extract_text_from_pdf(file.data)
    ELSE extract_text_from_docx(file.data)

\* A file that POST /extract rejects: no PDF or DOCX, or one without text.
SpecRejected(file) == ~SpecIsDoc(file.filename) \/ SpecTextOf(file) = <<>>

Running == {r \in Reqs : req[r].pc \notin {"none", "pending"}}
Done    == {r \in Reqs : req[r].pc = "done"}

\* C4: the model gateway is never called with the empty text of a document,
\* in /extract or in /chat: no handler waits in client.predict with a
\* contract text that is empty.
C4_NoModelCallOnEmptyText ==
    \A r \in Reqs : req[r].pc = "waiting" => req[r].text # <<>>

\* C5: a POST /extract answered 400 for a file that is neither PDF nor DOCX,
\* and a POST /chat answered 404, have made no call to the model gateway.
C5_ValidationBeforeGateway ==
    \A r \in Done :
        \/ /\ req[r].kind = "extract"
           /\ req[r].status = 400
           /\ req[r].detail = "Only PDF and DOCX files are allowed"
        \/ /\ req[r].kind = "chat"
           /\ req[r].status = 404
        => req[r].calls = 0

SpecDocs(names) == {n \in names : SpecIsDoc(n)}

\* C7 as stated: GET /files returns exactly the names of the PDF/DOCX
\* documents of the POST /extract requests answered so far, and POST /chat
\* accepts exactly those ids.
C7_ListingIsUploaded ==
    \A r \in Running :
        /\ req[r].kind = "files" => req[r].body.files = SpecDocs(hist.sent)
        /\ req[r].kind = "chat" =>
              (req[r].status = 404 <=> req[r].contract_id \notin SpecDocs(hist.sent))

\* The file of a batch at which POST /extract stops: the first one it
\* rejects, or the last one.
SpecStop(files) ==
    IF \E j \in 1..Len(files) : SpecRejected(files[j])
    THEN CHOOSE j \in 1..Len(files) :
             SpecRejected(files[j]) /\ \A m \in 1..(j - 1) : ~SpecRejected(files[m])
    ELSE Len(files)

\* C7 as amended: GET /files returns exactly the names of the PDF/DOCX
\* documents that the POST /extract requests answered so far have got to,
\* which in each batch are the files up to and including the first rejected
\* one (the files after it are not stored); POST /chat accepts exactly those
\* ids.
C7_ListingIsStored ==
    \A r \in Running :
        /\ req[r].kind = "files" => req[r].body.files = SpecDocs(hist.reached)
        /\ req[r].kind = "chat" =>
              (req[r].status = 404 <=> req[r].contract_id \notin SpecDocs(hist.reached))
        /\ req[r].kind = "extract" /\ req[r].pc = "done" =>
              req[r].i = SpecStop(req[r].files)

\* C7's case: GET /files answers with a document listed, after a batch in
\* which a document came behind a rejected file, and with a stored file that
\* is no document.
C7_Witness ==
    \E r \in Done :
        /\ req[r].kind = "files"
        /\ req[r].body.files # {}
        /\ SpecDocs(hist.sent) # SpecDocs(hist.reached)
        /\ \E n \in FileNames : disk[n].exists /\ ~SpecIsDoc(n)

\* The text of the latest data written under a name.
SpecLastText(name) ==
    SpecTextOf([filename |-> name, data |-> lastWrite[name]])

\* C8: a stored file that no request is in the middle of writing holds
\* exactly the data of the latest write under its name, never a mixture, and
\* POST /chat reads the text of that data.
C8_LastWriterWins ==
    /\ \A n \in FileNames :
          /\ disk[n].exists
          /\ \A r \in Reqs : ~(req[r].pc = "write" /\ req[r].files[req[r].i].filename = n)
          => disk[n].bytes = lastWrite[n]
    /\ \A r \in Reqs :
          req[r].kind = "chat" /\ req[r].pc = "waiting" =>
              req[r].text = SpecLastText(req[r].contract_id)

\* C8's case: a name was uploaded twice with different data, and a later
\* POST /chat has read the file.
C8_Witness ==
    \E r \in Reqs :
        /\ req[r].kind = "chat"
        /\ req[r].pc = "waiting"
        /\ req[r].contract_id \in hist.overwritten
        /\ req[r].text # <<>>

\* C9: while a request waits in the call of the model, any other request that
\* has arrived can start.
C9_OthersProceed ==
    \A r, q \in Reqs :
        r # q /\ req[r].pc = "waiting" /\ req[q].pc = "pending" => ENABLED Start(q)

\* C10: a POST /extract whose files are all PDF/DOCX with text is answered
\* 200 with one result per file, in upload order and under the file's name,
\* the result of a file whose model call failed being the error payload.
C10_BatchSurvivesGatewayError ==
    \A r \in Done :
        /\ req[r].kind = "extract"
        /\ \A j \in 1..Len(req[r].files) : ~SpecRejected(req[r].files[j])
        => /\ req[r].status = 200
           /\ Len(req[r].body.results) = Len(req[r].files)
           /\ \A j \in 1..Len(req[r].files) :
                 /\ req[r].body.results[j].file_name = req[r].files[j].filename
                 /\ j \in req[r].failed =>
                       req[r].body.results[j].contract_details = ErrorPayload

\* C10's case: the model call failed for the first file of a batch of two,
\* and succeeded for the second.
C10_Witness ==
    \E r \in Done :
        /\ req[r].kind = "extract"
        /\ Len(req[r].files) = 2
        /\ \A j \in 1..2 : ~SpecRejected(req[r].files[j])
        /\ req[r].failed = {1}
        /\ req[r].status = 200
        /\ req[r].body.results[2].contract_details # ErrorPayload

====
